---- MODULE Spec2Model ----
(***************************************************************************)
(* Model of src/app.py (IndirimRadar backend): the relational store        *)
(* (product, price_history, price_alert, favorite), the request handlers   *)
(* that write it, and init_db.  Every handler is split at the points where *)
(* it talks to the database: a SELECT sees the committed rows, an          *)
(* (auto)flush sends the pending UPDATE/INSERT statements inside the       *)
(* request's transaction, db.session.commit() publishes them.  Requests    *)
(* run in separate threads/workers, each with its own session, so the      *)
(* steps of different requests interleave.                                 *)
(***************************************************************************)
EXTENDS Integers, Sequences, FiniteSets, TLC

\* ------------------------------------------------------------------ bounds
\* Number of multi-step requests (admin_update_product, admin_create_product,
\* add_favorite) a behaviour contains; each slot serves one request.
NReq == 2
\* Number of PriceAlert rows a behaviour creates.
MaxAlerts == 1

Req == 1..NReq

\* ------------------------------------------------------------------ inputs
\* current_price of the three sample products of init_db.
sample_products == <<67499, 32999, 2999>>
\* Prices sent in request bodies; -1 is a negative price.
PriceInputs == {-1, 2999, 32999}
TargetInputs == {2999, 32999}
\* Users holding a valid token.
Users == {1, 2}
\* Product ids named by requests: two sample products and the first created one.
ReqPids == {1, 2, Len(sample_products) + 1}
\* Product ids named by create_alert / add_favorite; 0 is a missing product_id.
RefPids == {0, 1, 2}
PIDs == 1..(Len(sample_products) + NReq)
\* Does the backend named by DATABASE_URL (line 25) enforce foreign keys?
\* PostgreSQL does, SQLite as configured here does not.
Backends == BOOLEAN

NoRow == [exists |-> FALSE, current_price |-> 0, updated_at |-> 0]
\* product_id of a PriceHistory row whose foreign key was set to NULL.
NullId == 0

Idle == [op |-> "none", pc |-> "idle", user_id |-> 0, product_id |-> 0,
         has_price |-> FALSE, price |-> 0, old_price |-> 0,
         recorded_at |-> 0, triggered |-> {}, status |-> 0,
         alert_id |-> 0, result |-> {}]

VARIABLES
    product,        \* Product table: id -> [exists, current_price, updated_at]
    next_product_id,\* autoincrement of Product.id
    price_history,  \* PriceHistory table in insertion (id) order
    price_alert,    \* PriceAlert table: set of rows
    next_alert_id,  \* autoincrement of PriceAlert.id
    favorite,       \* Favorite table in insertion (id) order
    clock,          \* datetime.utcnow(): the last value handed out
    init_pc,        \* init_db: number of sample products committed; 4 = finished
    req,            \* the requests in flight: slot -> record
    stdout          \* ids of the alerts named by the "ALERT TRIGGERED" lines printed

vars == <<product, next_product_id, price_history, price_alert, next_alert_id,
          favorite, clock, init_pc, req, stdout>>

Serving == init_pc = Len(sample_products) + 1

Init ==
    /\ product = [p \in PIDs |-> NoRow]
    /\ next_product_id = 1
    /\ price_history = <<>>
    /\ price_alert = {}
    /\ next_alert_id = 1
    /\ favorite = <<>>
    /\ clock = 0
    /\ init_pc = 0
    /\ req = [r \in Req |-> Idle]
    /\ stdout = {}

\* ------------------------------------------------------------------ helpers
PriceHistoryRow(pid, price, at) ==
    [product_id |-> pid, price |-> price, recorded_at |-> at]

\* db.session.add(history) ... commit: one INSERT into price_history.
AddHistory(h, row) == Append(h, row)

\* The PriceHistory rows of one product, in insertion order.
HistoryOf(h, pid) == SelectSeq(h, LAMBDA row : row.product_id = pid)

\* A slot starts a request only after the slots before it have started one.
CanStart(r) ==
    /\ Serving
    /\ req[r].pc = "idle"
    /\ \A q \in Req : q < r => req[q].pc # "idle"

\* ------------------------------------------------------------------ init_db
\* One iteration of the loop over sample_products: the commit of line 509
\* inserts this product together with the history row the previous iteration
\* added to the session (line 513).
InitDbStep ==
    /\ init_pc < Len(sample_products)
    /\ init_pc = 0 => \A p \in PIDs : ~product[p].exists
    /\ LET i == init_pc + 1
           pid == next_product_id
       IN /\ product' = [product EXCEPT ![pid] =
                 [exists |-> TRUE, current_price |-> sample_products[i],
                  updated_at |-> clock + 1]]
          /\ next_product_id' = pid + 1
          /\ IF init_pc = 0
             THEN /\ price_history' = price_history
                  /\ clock' = clock + 1
             ELSE /\ price_history' = AddHistory(price_history,
                        PriceHistoryRow(pid - 1, sample_products[i - 1], clock + 2))
                  /\ clock' = clock + 2
          /\ init_pc' = i
    /\ UNCHANGED <<price_alert, next_alert_id, favorite, req, stdout>>

\* The commit of line 515 inserts the history row of the last sample product.
InitDbFinish ==
    /\ init_pc = Len(sample_products)
    /\ price_history' = AddHistory(price_history,
           PriceHistoryRow(next_product_id - 1, sample_products[init_pc], clock + 1))
    /\ clock' = clock + 1
    /\ init_pc' = init_pc + 1
    /\ UNCHANGED <<product, next_product_id, price_alert, next_alert_id, favorite,
                   req, stdout>>

\* ------------------------------------------------------------------ admin_update_product
\* Mutation: every price in the body counts as a change.
PriceAlwaysChanged(old_price, new_price) == TRUE

\* Line 433: "if old_price != data['current_price']".
PriceChanged(old_price, new_price) == old_price # new_price

\* Mutation: the query forgets the product filter.
ActiveAlertsAnyProduct(alerts, pid) ==
    {a \in alerts : a.is_active}

\* Mutation: an alert that has fired once is not looked at again.
ActiveAlertsNotYetFired(alerts, pid) ==
    {a \in alerts : a.product_id = pid /\ a.is_active /\ a.id \notin stdout}

\* Line 438: PriceAlert.query.filter_by(product_id=product_id, is_active=True).
ActiveAlerts(alerts, pid) ==
    {a \in alerts : a.product_id = pid /\ a.is_active}

\* Mutation: the comparison is strict.
AlertFiresStrict(new_price, alert) == new_price < alert.target_price

\* Line 441: "if data['current_price'] <= alert.target_price".
AlertFires(new_price, alert) == new_price <= alert.target_price

\* The alerts the loop of lines 439-443 prints a line for.
TriggeredAlerts(alerts, pid, new_price) ==
    {a.id : a \in {b \in ActiveAlerts(alerts, pid) : AlertFires(new_price, b)}}

\* An UPDATE or DELETE of a product row waits while another transaction holds
\* an uncommitted write of that row (row lock of PostgreSQL, write lock of
\* SQLite): a request between its flush and its commit holds it.
RowLockFree(r, pid) ==
    \A q \in Req : q # r => ~(req[q].pc = "flushed" /\ req[q].product_id = pid)

\* Does the request write a new price (lines 428, 433)?
WritesPrice(rq) == rq.has_price /\ PriceChanged(rq.old_price, rq.price)

UpdateBodies ==
    {[has_price |-> FALSE, price |-> 0]} \cup
    {[has_price |-> TRUE, price |-> P] : P \in PriceInputs}

\* Lines 422-430: get_or_404 loads the committed row; old_price is its
\* current_price; the new values are set on the session's copy only.
UpdateLoad(r, pid, body) ==
    /\ CanStart(r)
    /\ IF ~product[pid].exists
       THEN req' = [req EXCEPT ![r] = [Idle EXCEPT !.op = "update", !.pc = "done",
                        !.product_id = pid, !.status = 404]]
       ELSE req' = [req EXCEPT ![r] = [Idle EXCEPT !.op = "update", !.pc = "loaded",
                        !.product_id = pid, !.has_price = body.has_price,
                        !.price = body.price,
                        !.old_price = IF body.has_price
                                      THEN product[pid].current_price ELSE 0]]
    /\ UNCHANGED <<product, next_product_id, price_history, price_alert,
                   next_alert_id, favorite, clock, init_pc, stdout>>

\* Lines 433-443, taken when the price changed: the alert query autoflushes the
\* session (UPDATE product, INSERT price_history with recorded_at = utcnow())
\* inside the transaction, then reads the committed alerts and prints one line
\* per alert that fires.  An UPDATE that matches no row (the product was
\* deleted meanwhile) fails the request.
UpdateEvaluate(r) ==
    /\ req[r].op = "update" /\ req[r].pc = "loaded"
    /\ WritesPrice(req[r])
    /\ LET pid == req[r].product_id
       IN IF ~product[pid].exists
          THEN /\ req' = [req EXCEPT ![r].pc = "done", ![r].status = 500]
               /\ UNCHANGED <<clock, stdout>>
          ELSE /\ RowLockFree(r, pid)
               /\ LET fired == TriggeredAlerts(price_alert, pid, req[r].price)
                  IN /\ req' = [req EXCEPT ![r].pc = "flushed",
                                           ![r].recorded_at = clock + 1,
                                           ![r].triggered = fired]
                     /\ stdout' = stdout \cup fired
               /\ clock' = clock + 1
    /\ UNCHANGED <<product, next_product_id, price_history, price_alert,
                   next_alert_id, favorite, init_pc>>

\* Lines 445-451: updated_at = utcnow() and commit.  After an evaluation the
\* commit publishes the new current_price and the history row; otherwise the
\* flush of the commit only writes updated_at (current_price has no net change).
UpdateCommit(r) ==
    /\ req[r].op = "update"
    /\ LET pid == req[r].product_id
       IN \/ /\ req[r].pc = "flushed"
             /\ product' = [product EXCEPT ![pid].current_price = req[r].price,
                                           ![pid].updated_at = clock + 1]
             /\ price_history' = AddHistory(price_history,
                    PriceHistoryRow(pid, req[r].price, req[r].recorded_at))
             /\ clock' = clock + 1
             /\ req' = [req EXCEPT ![r].pc = "done", ![r].status = 200]
          \/ /\ req[r].pc = "loaded"
             /\ ~WritesPrice(req[r])
             /\ IF ~product[pid].exists
                THEN /\ req' = [req EXCEPT ![r].pc = "done", ![r].status = 500]
                     /\ UNCHANGED <<product, clock>>
                ELSE /\ RowLockFree(r, pid)
                     /\ product' = [product EXCEPT ![pid].updated_at = clock + 1]
                     /\ clock' = clock + 1
                     /\ req' = [req EXCEPT ![r].pc = "done", ![r].status = 200]
             /\ UNCHANGED price_history
    /\ UNCHANGED <<next_product_id, price_alert, next_alert_id, favorite, init_pc,
                   stdout>>

\* ------------------------------------------------------------------ admin_create_product
\* Lines 396-411: the product row is inserted and committed on its own.
CreateProduct(r, price) ==
    /\ CanStart(r)
    /\ next_product_id \in PIDs
    /\ product' = [product EXCEPT ![next_product_id] =
           [exists |-> TRUE, current_price |-> price, updated_at |-> clock + 1]]
    /\ next_product_id' = next_product_id + 1
    /\ clock' = clock + 1
    /\ req' = [req EXCEPT ![r] = [Idle EXCEPT !.op = "create", !.pc = "created",
                   !.product_id = next_product_id, !.has_price = TRUE,
                   !.price = price]]
    /\ UNCHANGED <<price_history, price_alert, next_alert_id, favorite, init_pc,
                   stdout>>

\* Lines 413-418: a second transaction inserts the first history row.  If the
\* product was deleted meanwhile the INSERT fails where foreign keys are
\* enforced and leaves a row without product where they are not.
CreateHistory(r, fk_enforced) ==
    /\ req[r].op = "create" /\ req[r].pc = "created"
    /\ IF fk_enforced /\ ~product[req[r].product_id].exists
       THEN /\ req' = [req EXCEPT ![r].pc = "done", ![r].status = 500]
            /\ UNCHANGED <<price_history, clock>>
       ELSE /\ price_history' = AddHistory(price_history,
                   PriceHistoryRow(req[r].product_id, req[r].price, clock + 1))
            /\ clock' = clock + 1
            /\ req' = [req EXCEPT ![r].pc = "done", ![r].status = 201,
                                  ![r].recorded_at = clock + 1]
    /\ UNCHANGED <<product, next_product_id, price_alert, next_alert_id, favorite,
                   init_pc, stdout>>

\* ------------------------------------------------------------------ admin_delete_product
\* Mutation: the column accepts NULL.
NotNullUnchecked(h) == FALSE

\* price_history.product_id is nullable=False (line 70).
NotNullViolated(h) == \E i \in DOMAIN h : h[i].product_id = NullId

\* Product.price_history has no delete cascade (line 66): deleting the product
\* first sets product_id of its history rows to NULL.
Nullified(h, pid) ==
    [i \in DOMAIN h |->
        IF h[i].product_id = pid THEN [h[i] EXCEPT !.product_id = NullId] ELSE h[i]]

Referenced(pid) ==
    \/ \E a \in price_alert : a.product_id = pid
    \/ \E i \in DOMAIN favorite : favorite[i].product_id = pid

\* Lines 455-459.  The flush fails on the NOT NULL column when the product has
\* history rows, and on the foreign keys of price_alert and favorite where the
\* backend enforces them; a failed request changes nothing.
DeleteProduct(pid, fk_enforced) ==
    /\ Serving
    /\ product[pid].exists
    /\ \A q \in Req : ~(req[q].pc = "flushed" /\ req[q].product_id = pid)
    /\ LET h == Nullified(price_history, pid)
       IN IF NotNullViolated(h) \/ (fk_enforced /\ Referenced(pid))
          THEN UNCHANGED <<product, price_history>>
          ELSE /\ product' = [product EXCEPT ![pid] = NoRow]
               /\ price_history' = h
    /\ UNCHANGED <<next_product_id, price_alert, next_alert_id, favorite, clock,
                   init_pc, req, stdout>>

\* ------------------------------------------------------------------ price alerts
\* Lines 345-362: is_active takes its column default True (line 85).
create_alert(user, pid, target_price, fk_enforced) ==
    /\ Serving
    /\ next_alert_id <= MaxAlerts
    /\ IF pid = 0 \/ (fk_enforced /\ ~product[pid].exists)
       THEN UNCHANGED <<price_alert, next_alert_id>>
       ELSE /\ price_alert' = price_alert \cup
                   {[id |-> next_alert_id, user_id |-> user, product_id |-> pid,
                     target_price |-> target_price, is_active |-> TRUE]}
            /\ next_alert_id' = next_alert_id + 1
    /\ UNCHANGED <<product, next_product_id, price_history, favorite, clock, init_pc,
                   req, stdout>>

\* Mutation: the query forgets the owner filter.
AnyUsersAlert(alerts, user, alert_id) ==
    {a \in alerts : a.id = alert_id}

\* Line 367: PriceAlert.query.filter_by(id=alert_id, user_id=current_user.id).
OwnAlert(alerts, user, alert_id) ==
    {a \in alerts : a.id = alert_id /\ a.user_id = user}

\* Lines 366-375 as one step on the store: nothing happens when the query
\* finds no row, else the row is deleted.
delete_alert(user, alert_id) ==
    /\ Serving
    /\ price_alert' = price_alert \ OwnAlert(price_alert, user, alert_id)
    /\ UNCHANGED <<product, next_product_id, price_history, next_alert_id, favorite,
                   clock, init_pc, req, stdout>>

\* The delete_alert request with its response.  Lines 366-370: the query sees
\* the committed rows and the request ends with 404 when it finds none.
DeleteAlertFind(r, user, alert_id) ==
    /\ CanStart(r)
    /\ IF OwnAlert(price_alert, user, alert_id) = {}
       THEN req' = [req EXCEPT ![r] = [Idle EXCEPT !.op = "delete_alert",
                        !.pc = "done", !.user_id = user, !.alert_id = alert_id,
                        !.status = 404]]
       ELSE req' = [req EXCEPT ![r] = [Idle EXCEPT !.op = "delete_alert",
                        !.pc = "found", !.user_id = user, !.alert_id = alert_id]]
    /\ UNCHANGED <<product, next_product_id, price_history, price_alert,
                   next_alert_id, favorite, clock, init_pc, stdout>>

\* Lines 372-375: the row the query found is deleted and the request answers
\* 200; a row another request deleted meanwhile is no longer there to delete.
DeleteAlertCommit(r) ==
    /\ req[r].op = "delete_alert" /\ req[r].pc = "found"
    /\ price_alert' = price_alert \
           OwnAlert(price_alert, req[r].user_id, req[r].alert_id)
    /\ req' = [req EXCEPT ![r].pc = "done", ![r].status = 200]
    /\ UNCHANGED <<product, next_product_id, price_history, next_alert_id, favorite,
                   clock, init_pc, stdout>>

\* Lines 324-326: the alerts of the caller that are active, joined with their
\* product.
AlertsOf(alerts, user) ==
    {a \in alerts : /\ a.user_id = user
                    /\ a.is_active
                    /\ a.product_id \in PIDs
                    /\ product[a.product_id].exists}

\* Lines 321-341: get_alerts answers with the ids of the rows of the query.
GetAlerts(r, user) ==
    /\ CanStart(r)
    /\ req' = [req EXCEPT ![r] = [Idle EXCEPT !.op = "get_alerts", !.pc = "done",
                   !.user_id = user, !.status = 200,
                   !.result = {a.id : a \in AlertsOf(price_alert, user)}]]
    /\ UNCHANGED <<product, next_product_id, price_history, price_alert,
                   next_alert_id, favorite, clock, init_pc, stdout>>

\* ------------------------------------------------------------------ favorites
FavoritesOf(fav, user, pid) ==
    {i \in DOMAIN fav : fav[i].user_id = user /\ fav[i].product_id = pid}

\* Line 294: Favorite.query.filter_by(user_id=..., product_id=...).first().
AlreadyFavorited(fav, user, pid) == FavoritesOf(fav, user, pid) # {}

\* Lines 287-296: the two early returns of add_favorite; the query sees the
\* committed rows.
AddFavoriteCheck(r, user, pid) ==
    /\ CanStart(r)
    /\ IF pid = 0 \/ AlreadyFavorited(favorite, user, pid)
       THEN req' = [req EXCEPT ![r] = [Idle EXCEPT !.op = "add_favorite",
                        !.pc = "done", !.user_id = user, !.product_id = pid,
                        !.status = 400]]
       ELSE req' = [req EXCEPT ![r] = [Idle EXCEPT !.op = "add_favorite",
                        !.pc = "checked", !.user_id = user, !.product_id = pid]]
    /\ UNCHANGED <<product, next_product_id, price_history, price_alert,
                   next_alert_id, favorite, clock, init_pc, stdout>>

\* Lines 298-302: the row is inserted and committed; the table has no unique
\* constraint on (user_id, product_id) (lines 74-78).
AddFavoriteInsert(r, fk_enforced) ==
    /\ req[r].op = "add_favorite" /\ req[r].pc = "checked"
    /\ IF fk_enforced /\ ~product[req[r].product_id].exists
       THEN /\ req' = [req EXCEPT ![r].pc = "done", ![r].status = 500]
            /\ UNCHANGED favorite
       ELSE /\ favorite' = Append(favorite,
                   [user_id |-> req[r].user_id, product_id |-> req[r].product_id])
            /\ req' = [req EXCEPT ![r].pc = "done", ![r].status = 201]
    /\ UNCHANGED <<product, next_product_id, price_history, price_alert,
                   next_alert_id, clock, init_pc, stdout>>

\* The sequence without its i-th element.
RemoveAt(seq, i) == SubSeq(seq, 1, i - 1) \o SubSeq(seq, i + 1, Len(seq))

Min(S) == CHOOSE x \in S : \A y \in S : x <= y

\* Lines 306-315: 404 when the pair has no row, else the first row is deleted.
remove_favorite(user, pid) ==
    /\ Serving
    /\ IF FavoritesOf(favorite, user, pid) = {}
       THEN UNCHANGED favorite
       ELSE favorite' = RemoveAt(favorite, Min(FavoritesOf(favorite, user, pid)))
    /\ UNCHANGED <<product, next_product_id, price_history, price_alert,
                   next_alert_id, clock, init_pc, req, stdout>>

\* ------------------------------------------------------------------ specifications
\* Inputs of the price-alert scenarios: updates of the two sample products to
\* a negative price and to a price that equals one alert target and exceeds
\* the other.
AlertPids == {1, 2}
AlertBodies == {b \in UpdateBodies : b.has_price /\ b.price \in {-1, 32999}}
\* Price of the product admin_create_product is called with.
CreatePrices == {2999}

init_db == InitDbStep \/ InitDbFinish

\* The whole program.
Next ==
    \/ init_db
    \/ \E r \in Req, pid \in ReqPids, body \in UpdateBodies : UpdateLoad(r, pid, body)
    \/ \E r \in Req : UpdateEvaluate(r)
    \/ \E r \in Req : UpdateCommit(r)
    \/ \E r \in Req, price \in CreatePrices : CreateProduct(r, price)
    \/ \E r \in Req, fk \in Backends : CreateHistory(r, fk)
    \/ \E pid \in ReqPids, fk \in Backends : DeleteProduct(pid, fk)
    \/ \E user \in Users, pid \in RefPids, t \in TargetInputs, fk \in Backends :
          create_alert(user, pid, t, fk)
    \/ \E user \in Users, id \in 1..MaxAlerts : delete_alert(user, id)
    \/ \E r \in Req, user \in Users, pid \in RefPids : AddFavoriteCheck(r, user, pid)
    \/ \E r \in Req, fk \in Backends : AddFavoriteInsert(r, fk)
    \/ \E user \in Users, pid \in RefPids : remove_favorite(user, pid)
    \/ \E r \in Req, user \in Users, id \in 1..MaxAlerts : DeleteAlertFind(r, user, id)
    \/ \E r \in Req : DeleteAlertCommit(r)
    \/ \E r \in Req, user \in Users : GetAlerts(r, user)

Spec == Init /\ [][Next]_vars

\* The product routes: init_db, admin_create_product, admin_update_product,
\* admin_delete_product.
NextProducts ==
    \/ init_db
    \/ \E r \in Req, pid \in ReqPids, body \in UpdateBodies : UpdateLoad(r, pid, body)
    \/ \E r \in Req : UpdateEvaluate(r)
    \/ \E r \in Req : UpdateCommit(r)
    \/ \E r \in Req, price \in CreatePrices : CreateProduct(r, price)
    \/ \E r \in Req, fk \in Backends : CreateHistory(r, fk)
    \/ \E pid \in ReqPids, fk \in Backends : DeleteProduct(pid, fk)

SpecProducts == Init /\ [][NextProducts]_vars

\* Price updates of the sample products together with the alert routes.
NextAlerts ==
    \/ init_db
    \/ \E r \in Req, pid \in AlertPids, body \in AlertBodies : UpdateLoad(r, pid, body)
    \/ \E r \in Req : UpdateEvaluate(r)
    \/ \E r \in Req : UpdateCommit(r)
    \/ \E user \in Users, pid \in RefPids, t \in TargetInputs, fk \in Backends :
          create_alert(user, pid, t, fk)
    \/ \E user \in Users, id \in 1..MaxAlerts : delete_alert(user, id)

SpecAlerts == Init /\ [][NextAlerts]_vars

\* The favorite routes.
NextFavorites ==
    \/ init_db
    \/ \E r \in Req, user \in Users, pid \in RefPids : AddFavoriteCheck(r, user, pid)
    \/ \E r \in Req, fk \in Backends : AddFavoriteInsert(r, fk)
    \/ \E user \in Users, pid \in RefPids : remove_favorite(user, pid)

SpecFavorites == Init /\ [][NextFavorites]_vars

\* The alert routes with their responses.
NextOwners ==
    \/ init_db
    \/ \E user \in Users, pid \in RefPids, t \in TargetInputs, fk \in Backends :
          create_alert(user, pid, t, fk)
    \/ \E r \in Req, user \in Users, id \in 1..MaxAlerts : DeleteAlertFind(r, user, id)
    \/ \E r \in Req : DeleteAlertCommit(r)
    \/ \E r \in Req, user \in Users : GetAlerts(r, user)

SpecOwners == Init /\ [][NextOwners]_vars

\* ------------------------------------------------------------------ properties
UpdateRequest(r) == req[r].op = "update"

\* The evaluation step of request r: lines 433-443 ran.
Evaluated(r) == req[r].pc = "loaded" /\ req'[r].pc = "flushed"

\* C1: when an admin_update_product request changes current_price to P, a
\* PriceAlert row of the store is triggered by it if and only if its
\* product_id is the updated product, it is active and P <= target_price;
\* nothing else is triggered.
C1_Step ==
    \A r \in Req : Evaluated(r) =>
        /\ \A a \in price_alert :
              a.id \in req'[r].triggered <=>
                 /\ a.product_id = req[r].product_id
                 /\ a.is_active
                 /\ req[r].price <= a.target_price
        /\ req'[r].triggered \subseteq {a.id : a \in price_alert}
        /\ req[r].old_price # req[r].price

\* C1: every evaluation step triggers exactly the matching active alerts.
C1_AlertTriggeredIff == [][C1_Step]_vars

\* An alert whose target equals the new price has fired, and the same alert
\* was not triggered by a price change of another product to a price below
\* its target.
C1_Witness ==
    \E r, q \in Req : \E a \in price_alert :
        /\ UpdateRequest(r) /\ req[r].pc \in {"flushed", "done"}
        /\ req[r].product_id = a.product_id
        /\ req[r].price = a.target_price
        /\ a.id \in req[r].triggered
        /\ UpdateRequest(q) /\ req[q].pc = "flushed"
        /\ req[q].product_id # a.product_id
        /\ req[q].price < a.target_price
        /\ a.id \notin req[q].triggered

\* The step in which request r loads the product (lines 422-430).
Loaded(r) == req[r].pc = "idle" /\ req'[r].pc = "loaded"

\* C3: an admin_update_product request whose current_price equals the stored
\* current_price it fetched adds no PriceHistory entry and triggers no alert,
\* whatever active alerts the product has; so repeating a price update leaves
\* the history as the first one left it.
C3_Step ==
    \A r \in Req :
        /\ Loaded(r) /\ req'[r].has_price =>
              req'[r].old_price = product[req'[r].product_id].current_price
        /\ UpdateRequest(r) /\ req[r].pc = "loaded" /\ req[r].has_price
              /\ req[r].old_price = req[r].price /\ req'[r] # req[r] =>
              /\ req'[r].pc # "flushed"
              /\ req'[r].triggered = {}
              /\ price_history' = price_history
              /\ stdout' = stdout
              /\ product'[req[r].product_id].current_price =
                     product[req[r].product_id].current_price

\* C3: a request for the price it fetched writes no history and triggers nothing.
C3_SamePriceIsNoOp == [][C3_Step]_vars

\* A request that asked for the price the product already had has completed
\* without triggering an active alert of that product whose target is at or
\* above that price, and the product's history still has its single entry.
C3_Witness ==
    \E r \in Req : \E a \in price_alert :
        /\ UpdateRequest(r) /\ req[r].pc = "done" /\ req[r].status = 200
        /\ req[r].has_price /\ req[r].old_price = req[r].price
        /\ a.product_id = req[r].product_id /\ a.is_active
        /\ a.target_price >= req[r].price
        /\ req[r].triggered = {} /\ stdout = {}
        /\ Len(HistoryOf(price_history, req[r].product_id)) = 1

\* C4: alert evaluation never changes alert state: a step of a request leaves
\* every PriceAlert row as it was; a row is created active and leaves the
\* store only by a delete_alert of its owner; so an alert that has fired is
\* triggered again by every later price-changing update of its product whose
\* new price is <= its target_price.
C4_Step ==
    /\ req' # req => price_alert' = price_alert
    /\ \A a \in price_alert :
          a \notin price_alert' =>
             /\ price_alert' = price_alert \ {a}
             /\ delete_alert(a.user_id, a.id)
    /\ \A a \in price_alert' : a.is_active
    /\ \A r \in Req : Evaluated(r) =>
          \A a \in price_alert :
             /\ a.id \in stdout
             /\ a.product_id = req[r].product_id
             /\ req[r].price <= a.target_price
             => a.id \in req'[r].triggered

\* C4: requests leave the alert rows alone and a fired alert fires again.
C4_EvaluationKeepsAlerts == [][C4_Step]_vars

\* The same alert, still in the store and active, has been triggered by two
\* successive price changes of its product.
C4_Witness ==
    \E r, q \in Req : \E a \in price_alert :
        /\ r # q /\ UpdateRequest(r) /\ UpdateRequest(q)
        /\ req[r].pc = "done" /\ req[q].pc = "flushed"
        /\ req[q].old_price = req[r].price
        /\ a.id \in req[r].triggered /\ a.id \in req[q].triggered
        /\ a.is_active

\* C5: a price update with a negative new price is rejected before any write:
\* it ends with a client error, no product has a negative current_price, no
\* PriceHistory entry has a negative price, and it triggers no alert.
C5_NegativePriceRejected ==
    /\ \A r \in Req :
          UpdateRequest(r) /\ req[r].has_price /\ req[r].price < 0 =>
             /\ req[r].triggered = {}
             /\ req[r].pc = "done" => req[r].status = 400
    /\ \A p \in PIDs : product[p].exists => product[p].current_price >= 0
    /\ \A i \in DOMAIN price_history : price_history[i].price >= 0

\* C6: concurrent admin_update_product requests on one product serialize: a
\* request that has read old_price and not yet committed still holds the
\* product's committed current_price, so the request that commits second
\* compares its new price against the price the first committed.
C6_UpdatesSerialize ==
    \A r \in Req :
        UpdateRequest(r) /\ req[r].has_price /\ req[r].pc \in {"loaded", "flushed"} =>
            req[r].old_price = product[req[r].product_id].current_price

\* The prices of a sequence of PriceHistory rows.
Prices(h) == [i \in DOMAIN h |-> h[i].price]

\* C9: updates of different products are independent.  A step of an
\* admin_update_product request on product p leaves the row and the history
\* of every other product unchanged and triggers only alerts of p; and when
\* no other request names p, the request's result for p (the old price it
\* read, the final current_price, the history of p) is what the request
\* yields on its own, whatever the requests on other products did and however
\* their steps were interleaved with its own.
C9_Step ==
    \A r \in Req :
        req'[r] # req[r] /\ req'[r].op = "update" =>
            LET p == req'[r].product_id
                printed == req'[r].triggered \cup (stdout' \ stdout)
            IN /\ \A q \in PIDs \ {p} :
                     /\ product'[q] = product[q]
                     /\ HistoryOf(price_history', q) = HistoryOf(price_history, q)
               /\ IF Evaluated(r)
                  THEN \A id \in printed :
                          \E a \in price_alert : a.id = id /\ a.product_id = p
                  ELSE /\ req'[r].triggered = req[r].triggered
                       /\ stdout' = stdout

C9_Alone ==
    \A r \in Req :
        /\ UpdateRequest(r) /\ req[r].pc = "done" /\ req[r].status = 200
        /\ req[r].has_price
        /\ \A q \in Req \ {r} : req[q].product_id # req[r].product_id
        => LET p == req[r].product_id
               before == sample_products[p]
           IN /\ req[r].old_price = before
              /\ product[p].current_price = req[r].price
              /\ Prices(HistoryOf(price_history, p)) =
                    IF before # req[r].price THEN <<before, req[r].price>>
                    ELSE <<before>>

\* C9: the frame of every update step and the result of a lone update.
C9_DifferentProductsIndependent == [][C9_Step]_vars /\ []C9_Alone

\* Two price-changing updates of different products have both completed; an
\* alert of the first product was triggered by the first and not by the second.
C9_Witness ==
    \E r, q \in Req : \E a \in price_alert :
        /\ UpdateRequest(r) /\ UpdateRequest(q)
        /\ req[r].pc = "done" /\ req[q].pc = "done"
        /\ req[r].status = 200 /\ req[q].status = 200
        /\ req[r].product_id # req[q].product_id
        /\ WritesPrice(req[r]) /\ WritesPrice(req[q])
        /\ a.product_id = req[r].product_id
        /\ a.id \in req[r].triggered /\ a.id \notin req[q].triggered
        /\ req[q].price <= a.target_price

\* No request is between two of its database steps.
Quiescent == Serving /\ \A r \in Req : req[r].pc \in {"idle", "done"}

\* C2: in every committed state reached by admin_create_product,
\* admin_update_product and init_db, every existing product has at least one
\* PriceHistory entry and its current_price is the price of its most recently
\* recorded entry (stated for the states in which no request is in flight).
C2_CurrentPriceIsLastHistory ==
    Quiescent =>
        \A p \in PIDs : product[p].exists =>
            LET h == HistoryOf(price_history, p)
            IN /\ h # <<>>
               /\ h[Len(h)].price = product[p].current_price

\* C7: PriceHistory is append-only.  No step changes or removes an existing
\* row, admin_delete_product on a product with history included; a step adds
\* at most one row; an admin_update_product request that completes adds
\* exactly one row, carrying its product id and new price, when it changed
\* the price and none otherwise; an admin_create_product request that
\* completes adds exactly one row, in its second transaction.
C7_Step ==
    /\ Len(price_history') \in {Len(price_history), Len(price_history) + 1}
    /\ \A i \in DOMAIN price_history : price_history'[i] = price_history[i]
    /\ \A r \in Req :
          /\ UpdateRequest(r) /\ req[r].pc # "done"
                /\ req'[r].pc = "done" /\ req'[r].status = 200 =>
                IF req[r].has_price /\ req[r].old_price # req[r].price
                THEN /\ Len(price_history') = Len(price_history) + 1
                     /\ price_history'[Len(price_history')].product_id =
                            req[r].product_id
                     /\ price_history'[Len(price_history')].price = req[r].price
                ELSE price_history' = price_history
          /\ req[r].pc = "idle" /\ req'[r].pc = "created" =>
                price_history' = price_history
          /\ req[r].pc = "created" /\ req'[r].status = 201 =>
                /\ Len(price_history') = Len(price_history) + 1
                /\ price_history'[Len(price_history')].product_id =
                       req[r].product_id
                /\ price_history'[Len(price_history')].price = req[r].price

\* C7: every step keeps the existing PriceHistory rows and appends as stated.
C7_HistoryAppendOnly == [][C7_Step]_vars

\* A product creation and a price change of a sample product have completed:
\* the table holds the three rows of init_db and one row of each request.
C7_Witness ==
    \E r, q \in Req :
        /\ req[r].op = "create" /\ req[r].pc = "done" /\ req[r].status = 201
        /\ UpdateRequest(q) /\ req[q].pc = "done" /\ req[q].status = 200
        /\ WritesPrice(req[q])
        /\ Len(price_history) = Len(sample_products) + 2
        /\ Len(HistoryOf(price_history, req[q].product_id)) = 2

\* C8: for every product the recorded_at timestamps of its PriceHistory
\* entries are non-decreasing in insertion (commit) order.
C8_RecordedAtMonotone ==
    \A p \in PIDs :
        LET h == HistoryOf(price_history, p)
        IN \A i, j \in DOMAIN h : i < j => h[i].recorded_at <= h[j].recorded_at

\* C10: there is at most one Favorite row per (user_id, product_id) pair.
C10_OneFavoritePerPair ==
    \A user \in Users, pid \in RefPids :
        Cardinality(FavoritesOf(favorite, user, pid)) <= 1

\* The step in which delete_alert request r runs its query (line 367).
Found(r) == req[r].pc = "idle" /\ req'[r].op = "delete_alert"

\* C11: delete_alert removes an alert only when the caller owns it.  A
\* request naming an alert of another user, or no alert, answers 404 and
\* leaves every PriceAlert row unchanged; a row leaves the table only in the
\* delete step of a delete_alert request of its owner naming its id; and
\* get_alerts answers only with active alerts of the caller.
C11_Step ==
    /\ \A r \in Req : Found(r) =>
          /\ price_alert' = price_alert
          /\ (req'[r].pc = "done" /\ req'[r].status = 404) <=>
                ~\E a \in price_alert :
                     a.id = req'[r].alert_id /\ a.user_id = req'[r].user_id
    /\ \A a \in price_alert : a \notin price_alert' =>
          /\ price_alert' = price_alert \ {a}
          /\ \E r \in Req :
                /\ req[r].op = "delete_alert" /\ req[r].pc = "found"
                /\ req'[r].pc = "done" /\ req'[r].status = 200
                /\ req[r].user_id = a.user_id
                /\ req[r].alert_id = a.id
    /\ \A r \in Req : req'[r] # req[r] /\ req'[r].op = "get_alerts" =>
          \A id \in req'[r].result :
             \E a \in price_alert :
                a.id = id /\ a.user_id = req'[r].user_id /\ a.is_active

\* C11: every step obeys the ownership rule of delete_alert and get_alerts.
C11_OnlyOwnerDeletes == [][C11_Step]_vars

\* A delete_alert request of a user who does not own the alert was answered
\* 404 and the alert is still in the table, where a get_alerts request of its
\* owner has listed it.
C11_Witness ==
    \E r, q \in Req : \E a \in price_alert :
        /\ req[r].op = "delete_alert" /\ req[r].pc = "done"
        /\ req[r].status = 404
        /\ req[r].alert_id = a.id /\ req[r].user_id # a.user_id
        /\ req[q].op = "get_alerts" /\ req[q].user_id = a.user_id
        /\ a.id \in req[q].result
        /\ q < r
====
